---------------------------- MODULE Spec2Model ----------------------------
(***************************************************************************)
(* State-machine model of the three scripts of the repository:             *)
(*   src/Python/create-folders.py     the directory materializer           *)
(*   src/Python/create_materials.py   the asset-spec builder               *)
(*   src/Python/downloadTextures.py   the fetch engine                     *)
(*                                                                         *)
(* A Python str is a sequence of one-character strings.  A JSON object is  *)
(* a function whose domain is the set of keys present (d.get(k) is None    *)
(* exactly when k is not in the domain).  A path is the sequence of its    *)
(* components below the destination root.                                  *)
(***************************************************************************)
EXTENDS Integers, Sequences, FiniteSets, TLC

VARIABLES
    prog,        \* which script runs: "textures", "folders" or "materials"
    root,        \* the JSON type of what json.load returned: "list" or another type
    data,        \* the parsed catalog (json.load) when it is a list
    fs,          \* the filesystem below the destination root: path -> node
    mode,        \* textures: "batch" (--no-gui / no Tk) or "gui"
    pc,          \* position of the running script
    work,        \* textures: the variations (batch) or tasks (gui) to go through
    i,           \* textures: index in work of the element whose turn it is
    attempt,     \* download_with_retries: attempt
    last_err,    \* download_with_retries: last_err
    payload,     \* download_with_retries: data, the bytes http_get returned
    ret,         \* download_with_retries: the returned (ok, msg)
    thrown,      \* ghost: the exceptions raised inside the current download_with_retries
    calls,       \* ghost: http_get calls of the current download_with_retries
    slept,       \* ghost: time.sleep arguments of the current download_with_retries
    existed,     \* ghost: dest_file existed when the current element's turn came
    seen_existing, \* ghost: variations whose dest_file existed when their turn came
    downloaded, skipped, failed, errors,   \* the run's counters and error list
    cancel_flag, \* gui: cancel_flag['val']
    exit_status, \* the value main returns (-1 while running)
    run,         \* folders: 1 in the first run of the script, 2 in the run after it
    nodes,       \* folders: the directories the loops of create_structure go through
    ni,          \* folders: index of the node create_structure visits next
    summary,     \* folders: the four counters of create_structure
    visited,     \* ghost: per visited node, whether it was present and whether it was made
    prev,        \* ghost: summary, visited and fs at the end of the first run
    specs,       \* materials: the list build_material_specs returns
    script,      \* find_json_file: the script it belongs to
    script_dir,  \* find_json_file: Path(__file__).parent
    cli_path,    \* find_json_file: the --json argument, or None
    env_path,    \* find_json_file: os.environ.get("COLLECTIONS_JSON")
    on_disk,     \* find_json_file: the paths for which Path.exists() is true
    found,       \* find_json_file: the path returned, or the error raised
    raw,         \* slugify: the string given to the first call
    slug,        \* slugify: slugify(raw)
    reslug       \* slugify: slugify(slug)

vars == <<prog, root, data, fs, mode, pc, work, i, attempt, last_err, payload, ret, thrown, calls,
          slept, existed, seen_existing, downloaded, skipped, failed, errors, cancel_flag,
          exit_status, run, nodes, ni, summary, visited, prev, specs,
          script, script_dir, cli_path, env_path, on_disk, found, raw, slug, reslug>>

texturesVars == <<mode, work, i, attempt, last_err, payload, ret, thrown, calls, slept, existed,
                  seen_existing, downloaded, skipped, failed, errors, cancel_flag, exit_status>>
foldersVars == <<run, nodes, ni, summary, visited, prev>>
materialsVars == <<specs>>
finderVars == <<script, script_dir, cli_path, env_path, on_disk, found>>
slugVars == <<raw, slug, reslug>>

---------------------------------------------------------------------------
(* Python str helpers *)

None == <<"<None>">>

Whitespace == {" ", "\t", "\n"}

RECURSIVE LStrip(_)
LStrip(s) == IF s # <<>> /\ Head(s) \in Whitespace THEN LStrip(Tail(s)) ELSE s

RECURSIVE RStripSet(_, _)
RStripSet(s, cs) ==
    IF s # <<>> /\ s[Len(s)] \in cs THEN RStripSet(SubSeq(s, 1, Len(s) - 1), cs) ELSE s

\* str.strip()
Strip(s) == RStripSet(LStrip(s), Whitespace)

\* Python truthiness of a str-or-None value
Truthy(v) == v # None /\ v # <<>>

\* dict.get(key)
Get(d, key) == IF key \in DOMAIN d THEN d[key] ELSE None

\* a or b
Or(a, b) == IF Truthy(a) THEN a ELSE b

InvalidWinChars == {"<", ">", ":", "\"", "/", "\\", "|", "?", "*"}

RECURSIVE MapChars(_, _, _)
\* re.sub of a one-character class cs by the string rep
MapChars(s, cs, rep) ==
    IF s = <<>> THEN <<>>
    ELSE (IF Head(s) \in cs THEN rep ELSE <<Head(s)>>) \o MapChars(Tail(s), cs, rep)

RECURSIVE CollapseRuns(_, _, _)
\* re.sub of every maximal run of characters of cs by the string rep
CollapseRuns(s, cs, rep) ==
    IF s = <<>> THEN <<>>
    ELSE IF Head(s) \in cs
         THEN IF Len(s) > 1 /\ s[2] \in cs
              THEN CollapseRuns(Tail(s), cs, rep)
              ELSE rep \o CollapseRuns(Tail(s), cs, rep)
         ELSE <<Head(s)>> \o CollapseRuns(Tail(s), cs, rep)

sanitize_folder(name) ==
    LET s1 == MapChars(Strip(name), InvalidWinChars, <<"_">>)
        s2 == CollapseRuns(s1, Whitespace, <<" ">>)
        s3 == RStripSet(s2, {".", " "})
    IN  IF s3 # <<>> THEN s3 ELSE <<"_">>

UpperChars == <<"A", "B", "C", "D", "E", "F", "G", "H", "I", "J", "K", "L", "M",
                "N", "O", "P", "Q", "R", "S", "T", "U", "V", "W", "X", "Y", "Z">>
LowerChars == <<"a", "b", "c", "d", "e", "f", "g", "h", "i", "j", "k", "l", "m",
                "n", "o", "p", "q", "r", "s", "t", "u", "v", "w", "x", "y", "z">>
Digits == {"0", "1", "2", "3", "4", "5", "6", "7", "8", "9"}

Range(f) == {f[k] : k \in DOMAIN f}

UpperSet == Range(UpperChars)
LowerSet == Range(LowerChars)

LowerOf(c) ==
    IF c \in UpperSet
    THEN LowerChars[CHOOSE k \in 1..26 : UpperChars[k] = c]
    ELSE c

UpperOf(c) ==
    IF c \in LowerSet
    THEN UpperChars[CHOOSE k \in 1..26 : LowerChars[k] = c]
    ELSE c

\* str.lower(), str.upper()
Lower(s) == [k \in 1..Len(s) |-> LowerOf(s[k])]
Upper(s) == [k \in 1..Len(s) |-> UpperOf(s[k])]

\* re.sub(r"[^...]", "", s): keep the characters of cs
KeepChars(s, cs) == SelectSeq(s, LAMBDA c : c \in cs)

\* str.strip(chars)
StripSet(s, cs) ==
    LET RECURSIVE L(_)
        L(t) == IF t # <<>> /\ Head(t) \in cs THEN L(Tail(t)) ELSE t
    IN  RStripSet(L(s), cs)

\* slugify with a placeholder that is not a slug
slugify_PlaceholderWithSpace(name) ==
    LET n1 == Lower(Strip(name))
        n2 == CollapseRuns(n1, Whitespace \cup {"/", "\\"}, <<"_">>)
        n3 == KeepChars(n2, LowerSet \cup Digits \cup {"_"})
        n4 == CollapseRuns(n3, {"_"}, <<"_">>)
        n5 == StripSet(n4, {"_"})
    IN  IF n5 # <<>> THEN n5 ELSE <<"n", "o", " ", "n", "a", "m", "e">>

\* create-folders.py, slugify
slugify(name) ==
    LET n1 == Lower(Strip(name))
        n2 == CollapseRuns(n1, Whitespace \cup {"/", "\\"}, <<"_">>)
        n3 == KeepChars(n2, LowerSet \cup Digits \cup {"_"})
        n4 == CollapseRuns(n3, {"_"}, <<"_">>)
        n5 == StripSet(n4, {"_"})
    IN  IF n5 # <<>> THEN n5 ELSE <<"u", "n", "n", "a", "m", "e", "d">>

---------------------------------------------------------------------------
(* JSON helpers of downloadTextures.py / create_materials.py *)

\* the name taken without .strip()
get_collection_name_NoStrip(coll) ==
    Or(Or(Get(coll, "collection-name"), Get(coll, "collection")), <<>>)

get_collection_name(coll) ==
    Strip(Or(Or(Get(coll, "collection-name"), Get(coll, "collection")), <<>>))

get_subcollection_list(coll) ==
    IF "subcollection" \in DOMAIN coll THEN coll["subcollection"] ELSE <<>>

get_subcollection_name(sub) ==
    Strip(Or(Or(Get(sub, "subcollection-name"), Get(sub, "name")), <<>>))

get_variations_list(sub) ==
    IF "variations" \in DOMAIN sub THEN sub["variations"]
    ELSE IF "variation" \in DOMAIN sub THEN sub["variation"]
    ELSE <<>>

\* a bare string taken as its own pattern
get_variation_pattern_LegacyString(variation_item) ==
    IF variation_item.json = "dict"
    THEN LET vp == Strip(Or(Get(variation_item.d, "variation-pattern"), <<>>))
         IN  IF vp # <<>> THEN vp ELSE None
    ELSE Strip(variation_item.s)

\* A variation item is [json |-> "dict", d |-> object] or [json |-> "str", s |-> str].
get_variation_pattern(variation_item) ==
    IF variation_item.json = "dict"
    THEN LET vp == Strip(Or(Get(variation_item.d, "variation-pattern"), <<>>))
         IN  IF vp # <<>> THEN vp ELSE None
    ELSE None

\* create_materials.py, _get_variation_label
get_variation_label(variation_item) ==
    IF variation_item.json = "dict"
    THEN LET vname == Strip(Or(Get(variation_item.d, "variation-name"), <<>>))
             vpat == Strip(Or(Get(variation_item.d, "variation-pattern"), <<>>))
         IN  IF vname # <<>> /\ vpat # <<>> THEN vname \o <<"-">> \o vpat
             ELSE Or(Or(vname, vpat), <<>>)
    ELSE Strip(variation_item.s)

\* unicodedata.normalize('NFKD', c) for the accented characters of the model, each
\* written as its code point
NFKD(c) ==
    CASE c = "U+00E9" -> <<"e", "U+0301">>
      [] c = "U+00F1" -> <<"n", "U+0303">>
      [] OTHER -> <<c>>

CombiningChars == {"U+0301", "U+0303"}

RECURSIVE Normalize(_)
Normalize(s) == IF s = <<>> THEN <<>> ELSE NFKD(Head(s)) \o Normalize(Tail(s))

\* create_materials.py, strip_accents
strip_accents(text) == SelectSeq(Normalize(text), LAMBDA ch : ch \notin CombiningChars)

\* create_materials.py, sanitize_token
sanitize_token(text) ==
    IF text = None THEN <<>>
    ELSE LET t1 == Strip(strip_accents(text))
             t2 == MapChars(t1, {" "}, <<"-">>)
             t3 == KeepChars(t2, UpperSet \cup LowerSet \cup Digits \cup {"-"})
             t4 == CollapseRuns(t3, {"-"}, <<"-">>)
             t5 == StripSet(t4, {"-"})
         IN  Upper(t5)

build_download_url(variation_pattern) ==
    LET pat == Strip(variation_pattern)
    IN  <<"https://images.mayerfabrics.com/item/">> \o pat \o <<"/image?download=">> \o pat

---------------------------------------------------------------------------
(* The catalogs the scripts are run on *)

Wo == <<"W", "o">>
He == <<"H", "e">>
Li == <<"L", "i">>
P1 == <<"1", "-", "2">>
P2 == <<"3">>
P3 == <<"9">>
Blank == <<" ">>

VDict(d) == [json |-> "dict", d |-> d]
VStr(s) == [json |-> "str", s |-> s]
VPat(p) == VDict("variation-pattern" :> p)
VNamed(n, p) == VDict(("variation-name" :> n) @@ ("variation-pattern" :> p))

Coll(name, subs) == ("collection-name" :> name) @@ ("subcollection" :> subs)
Sub(name, vs) == ("subcollection-name" :> name) @@ ("variations" :> vs)

\* one collection, one subcollection, the same pattern twice
CatDup == << Coll(Wo, << Sub(He, << VPat(P1), VPat(P1) >>) >>) >>
\* two subcollections, two patterns
CatTwo == << Coll(Wo, << Sub(He, << VPat(P1) >>), Sub(Li, << VNamed(He, P2) >>) >>) >>
\* the legacy schema: "collection", "name", "variation" with bare strings
CatLegacy ==
    << ("collection" :> Wo) @@
       ("subcollection" :> << ("name" :> He) @@ ("variation" :> << VStr(<<"r">>) >>),
                              ("name" :> Li) @@ ("variations" :> << VPat(P2) >>) >>) >>
\* blank and empty names, a blank pattern
CatBlank ==
    << Coll(Blank, << Sub(He, << VPat(P1) >>) >>),
       Coll(Wo, << Sub(<<>>, << VPat(P3) >>),
                   Sub(He, << VPat(Blank), VPat(P2) >>) >>) >>
\* missing name keys, a variation without "variation-pattern"
CatMissing ==
    << ("subcollection" :> << Sub(He, << VPat(P3) >>) >>),
       Coll(Wo, << ("variations" :> << VPat(P2) >>),
                   Sub(Li, << VDict("variation-name" :> He), VPat(P1) >>) >>) >>

\* a collection name made of characters no token keeps
CatSymbols == << Coll(<<"?">>, << Sub(He, << VPat(P1), VStr(Li) >>) >>) >>

Catalogs == {CatDup, CatTwo, CatLegacy, CatBlank, CatMissing, CatSymbols}

\* JSON roots that are not a list: null, {}, a non-empty object, a non-empty
\* string, a non-zero number
NonListRoots == {"null", "empty_object", "object", "string", "number"}

\* bool(data) for a root that is not a list
RootTruthy(r) == r \in {"object", "string", "number"}

\* the file holds a catalog, or a root of another type (data is then unused)
CatalogFile ==
    \/ root = "list" /\ data \in Catalogs
    \/ root \in NonListRoots /\ data = <<>>

---------------------------------------------------------------------------
(* Filesystem below the destination root *)

DirNode == [kind |-> "dir"]
FileNode(body, complete) == [kind |-> "file", body |-> body, complete |-> complete]
OldFile == FileNode(<<"old">>, TRUE)

Exists(f, path) == path \in DOMAIN f

Put(f, path, node) == (path :> node) @@ f

Remove(f, path) == [p \in DOMAIN f \ {path} |-> f[p]]

\* Path.mkdir(parents=True, exist_ok=True): the directory and its missing parents
Prefixes(path) == {SubSeq(path, 1, k) : k \in 1..Len(path)}

MkdirP(f, path) == [p \in DOMAIN f \cup Prefixes(path) |-> IF p \in DOMAIN f THEN f[p] ELSE DirNode]

\* a parent of path is a file: mkdir and open raise
BlockedByFile(f, path) == \E p \in Prefixes(path) : p \in DOMAIN f /\ f[p].kind = "file"

Jpg == <<".", "j", "p", "g">>
PartSuffix == <<".", "p", "a", "r", "t">>

\* the response written straight to dest_path
TmpOf_InPlace(dest_path) == dest_path

\* dest_path.with_suffix(dest_path.suffix + '.part')
TmpOf(dest_path) ==
    [dest_path EXCEPT ![Len(dest_path)] = dest_path[Len(dest_path)] \o PartSuffix]

---------------------------------------------------------------------------
(* downloadTextures.py: the walk over the catalog *)

RECURSIVE Concat(_)
Concat(ss) == IF ss = <<>> THEN <<>> ELSE Head(ss) \o Concat(Tail(ss))

\* One element per variation met by the loops of process_all (lines 193-214):
\* collections and subcollections without a name are passed over.
VisitsOfSub(coll_name, sub) ==
    LET sub_name == get_subcollection_name(sub)
        target_dir == << sanitize_folder(coll_name), sanitize_folder(sub_name) >>
        vs == get_variations_list(sub)
    IN  IF sub_name = <<>> THEN <<>>
        ELSE [k \in 1..Len(vs) |->
                LET pattern == get_variation_pattern(vs[k])
                IN  [coll_name |-> coll_name, sub_name |-> sub_name, pattern |-> pattern,
                     url |-> IF pattern = None THEN None ELSE build_download_url(pattern),
                     dest_file |-> IF pattern = None THEN None
                                   ELSE Append(target_dir, pattern \o Jpg)]]

VisitsOfColl(coll) ==
    LET coll_name == get_collection_name(coll)
        subs == get_subcollection_list(coll)
    IN  IF coll_name = <<>> THEN <<>>
        ELSE Concat([k \in 1..Len(subs) |-> VisitsOfSub(coll_name, subs[k])])

Visits(d) == Concat([k \in 1..Len(d) |-> VisitsOfColl(d[k])])

IsTask(v) == v.pattern # None

\* main, lines 327-347: the tasks of the interactive path
BuildTasks(d, f) ==
    LET Wanted(v) == IsTask(v) /\ ~Exists(f, v.dest_file)
    IN  SelectSeq(Visits(d), Wanted)

---------------------------------------------------------------------------
(* downloadTextures.py: errors, retries *)

Exc(type, text) == [type |-> type, text |-> text]

\* what urlopen / resp.read() can raise
NetworkErrors ==
    { Exc("HTTPError", "HTTP Error 404: Not Found"),
      Exc("URLError", "<urlopen error timed out>"),
      Exc("InvalidURL", "URL can't contain control characters") }

DiskFull == Exc("OSError", "[Errno 28] No space left on device")
AccessDenied == Exc("PermissionError", "[Errno 13] Permission denied")

\* the classes named by the except clause of download_with_retries (line 171), with
\* their subclasses
IsCaught(e) ==
    e.type \in {"HTTPError", "URLError", "TimeoutError", "timeout", "OSError",
                "PermissionError", "NotADirectoryError"}

\* str(last_err)
StrOf(e) == e.text

Retries == 3

\* backoff ** attempt with backoff = 1.5, as the fraction <<3^attempt, 2^attempt>>
RECURSIVE Pow(_, _)
Pow(b, n) == IF n = 0 THEN 1 ELSE b * Pow(b, n - 1)

BackoffDelay(k) == << Pow(3, k), Pow(2, k) >>

\* http_get's result for a URL: the body the server sends
BodyOf(url) == << "body of" >> \o url

Cur == work[i]

---------------------------------------------------------------------------
(* downloadTextures.py: the run *)

MaxPre == 1

ZeroSummary ==
    [created_collections |-> 0, existing_collections |-> 0,
     created_subcollections |-> 0, existing_subcollections |-> 0]

\* the variables of the other scripts while one script runs
FoldersIdle == run = 0 /\ nodes = <<>> /\ ni = 0 /\ summary = ZeroSummary /\ visited = <<>> /\ prev = None

MaterialsIdle == specs = None

FinderIdle ==
    /\ script = "none" /\ script_dir = None /\ cli_path = None /\ env_path = None
    /\ on_disk = {} /\ found = None

SlugIdle == raw = None /\ slug = None /\ reslug = None

TexturesIdle ==
    /\ mode = "none" /\ work = <<>> /\ i = 0
    /\ attempt = 0 /\ last_err = None /\ payload = None /\ ret = None /\ thrown = <<>>
    /\ calls = 0 /\ slept = <<>> /\ existed = FALSE /\ seen_existing = 0
    /\ downloaded = 0 /\ skipped = 0 /\ failed = 0 /\ errors = <<>>
    /\ cancel_flag = FALSE
    /\ exit_status = -1

DestFiles(d) == {Visits(d)[k].dest_file : k \in {j \in 1..Len(Visits(d)) : IsTask(Visits(d)[j])}}

\* a filesystem holding the files of S (left by an earlier run) and their directories
FsWith(S) ==
    LET dirs == UNION {Prefixes(SubSeq(p, 1, Len(p) - 1)) : p \in S}
    IN  [p \in S \cup dirs |-> IF p \in S THEN OldFile ELSE DirNode]

InitTextures ==
    /\ prog = "textures"
    /\ CatalogFile
    /\ mode \in {"batch", "gui"}
    /\ \E S \in SUBSET DestFiles(data) : Cardinality(S) <= MaxPre /\ fs = FsWith(S)
    /\ pc = "start"
    /\ work = <<>> /\ i = 0
    /\ attempt = 0 /\ last_err = None /\ payload = None /\ ret = None /\ thrown = <<>>
    /\ calls = 0 /\ slept = <<>> /\ existed = FALSE /\ seen_existing = 0
    /\ downloaded = 0 /\ skipped = 0 /\ failed = 0 /\ errors = <<>>
    /\ cancel_flag = FALSE
    /\ exit_status = -1
    /\ FoldersIdle /\ MaterialsIdle /\ FinderIdle /\ SlugIdle

Textures(at) == prog = "textures" /\ pc = at

\* skipped variations taken for failures
ExitCode_CountsSkipped == IF failed + skipped = 0 THEN 0 ELSE 1

\* main, lines 307 and 416
ExitCode == IF failed = 0 THEN 0 ELSE 1

counters == <<downloaded, skipped, failed, errors>>
locals == <<attempt, last_err, payload, ret, thrown, calls, slept, existed>>

\* data or []
DataOrEmpty(r, d) == IF r = "list" THEN d ELSE <<>>

\* json.load, then process_all's locals (batch) or main's task list (gui, lines 324-362)
\* A root that is not a list: `for coll in data or []` goes through [] when the
\* root is falsy, and raises TypeError (a number) or AttributeError (the keys of an
\* object, the characters of a string have no .get) when it is not; main lets the
\* exception through.
LoadCatalog ==
    /\ Textures("start")
    /\ IF root # "list" /\ RootTruthy(root)
       THEN /\ pc' = "type_error"
            /\ exit_status' = 1
            /\ UNCHANGED <<work, i, seen_existing>>
       ELSE LET d == DataOrEmpty(root, data)
            IN  /\ i' = 1
                /\ IF mode = "batch"
                   THEN /\ work' = Visits(d)
                        /\ pc' = "loop"
                        /\ UNCHANGED <<seen_existing, exit_status>>
                   ELSE /\ work' = BuildTasks(d, fs)
                        /\ seen_existing' = Cardinality({k \in 1..Len(Visits(d)) :
                               IsTask(Visits(d)[k]) /\ Exists(fs, Visits(d)[k].dest_file)})
                        /\ pc' = IF work' = <<>> THEN "done" ELSE "confirm"
                        /\ exit_status' = IF work' = <<>> THEN 0 ELSE exit_status
    /\ UNCHANGED <<slugVars, finderVars, foldersVars, materialsVars, prog, root, data, fs, mode, locals, counters, cancel_flag>>

\* messagebox.askokcancel (line 364)
Confirm ==
    /\ Textures("confirm")
    /\ \E answer \in BOOLEAN :
          /\ pc' = IF answer THEN "loop" ELSE "declined"
          /\ exit_status' = IF answer THEN exit_status ELSE 0
    /\ UNCHANGED <<slugVars, finderVars, foldersVars, materialsVars, prog, root, data, fs, mode, work, i, locals, seen_existing, counters, cancel_flag>>

\* process_all, lines 206-210
NoPattern ==
    /\ Textures("loop") /\ mode = "batch" /\ i <= Len(work)
    /\ ~IsTask(Cur)
    /\ failed' = failed + 1
    /\ errors' = Append(errors, <<"Sin 'variation-pattern' -> ">> \o Cur.coll_name
                                 \o <<"/">> \o Cur.sub_name)
    /\ i' = i + 1
    /\ UNCHANGED <<slugVars, finderVars, foldersVars, materialsVars, prog, root, data, fs, mode, pc, work, locals, seen_existing, downloaded, skipped,
                   cancel_flag, exit_status>>

\* process_all, lines 216-218
SkipExisting ==
    /\ Textures("loop") /\ mode = "batch" /\ i <= Len(work)
    /\ IsTask(Cur) /\ Exists(fs, Cur.dest_file)
    /\ skipped' = skipped + 1
    /\ seen_existing' = seen_existing + 1
    /\ i' = i + 1
    /\ UNCHANGED <<slugVars, finderVars, foldersVars, materialsVars, prog, root, data, fs, mode, pc, work, locals, downloaded, failed, errors,
                   cancel_flag, exit_status>>

\* entering download_with_retries (lines 159-161)
Enter ==
    /\ pc' = "http"
    /\ attempt' = 1 /\ last_err' = None /\ payload' = None /\ ret' = None /\ thrown' = <<>>
    /\ calls' = 0 /\ slept' = <<>>
    /\ existed' = Exists(fs, Cur.dest_file)
    /\ seen_existing' = IF Exists(fs, Cur.dest_file) THEN seen_existing + 1 ELSE seen_existing

\* process_all, line 220
BeginDownload ==
    /\ Textures("loop") /\ mode = "batch" /\ i <= Len(work)
    /\ IsTask(Cur) /\ ~Exists(fs, Cur.dest_file)
    /\ Enter
    /\ UNCHANGED <<slugVars, finderVars, foldersVars, materialsVars, prog, root, data, fs, mode, work, i, counters, cancel_flag, exit_status>>

\* process_all's return and main's exit status (lines 227, 302-307)
BatchReturn ==
    /\ Textures("loop") /\ mode = "batch" /\ i > Len(work)
    /\ pc' = "done"
    /\ exit_status' = ExitCode
    /\ UNCHANGED <<slugVars, finderVars, foldersVars, materialsVars, prog, root, data, fs, mode, work, i, locals, seen_existing, counters, cancel_flag>>

\* main, lines 394-401: the cancel check, root.update() (during which on_cancel may
\* run), then the download
GuiBeginDownload ==
    /\ Textures("loop") /\ mode = "gui" /\ i <= Len(work)
    /\ ~cancel_flag
    /\ \E click \in BOOLEAN : cancel_flag' = click
    /\ Enter
    /\ UNCHANGED <<slugVars, finderVars, foldersVars, materialsVars, prog, root, data, fs, mode, work, i, counters, exit_status>>

\* main, lines 395-396 and 411-416: break on cancel, or the end of the task list
GuiReturn ==
    /\ Textures("loop") /\ mode = "gui"
    /\ \/ i <= Len(work) /\ cancel_flag
       \/ i > Len(work)
    /\ pc' = "done"
    /\ exit_status' = ExitCode
    /\ UNCHANGED <<slugVars, finderVars, foldersVars, materialsVars, prog, root, data, fs, mode, work, i, locals, seen_existing, counters, cancel_flag>>

\* one attempt too many: attempt <= retries
Handle_ExtraAttempt(e) ==
    /\ last_err' = e
    /\ IF attempt < Retries + 1
       THEN /\ slept' = Append(slept, BackoffDelay(attempt))
            /\ attempt' = attempt + 1
            /\ pc' = "http"
            /\ ret' = ret
       ELSE /\ pc' = "ret"
            /\ ret' = [ok |-> FALSE, msg |-> StrOf(e)]
            /\ UNCHANGED <<slept, attempt>>

\* the sleep placed before the test of attempt < retries
Handle_SleepAfterLast(e) ==
    /\ last_err' = e
    /\ slept' = Append(slept, BackoffDelay(attempt))
    /\ IF attempt < Retries
       THEN /\ attempt' = attempt + 1
            /\ pc' = "http"
            /\ ret' = ret
       ELSE /\ pc' = "ret"
            /\ ret' = [ok |-> FALSE, msg |-> StrOf(e)]
            /\ attempt' = attempt

\* the except clause of download_with_retries (lines 171-177) for exception e
Handle(e) ==
    /\ last_err' = e
    /\ IF attempt < Retries
       THEN /\ slept' = Append(slept, BackoffDelay(attempt))
            /\ attempt' = attempt + 1
            /\ pc' = "http"
            /\ ret' = ret
       ELSE /\ pc' = "ret"
            /\ ret' = [ok |-> FALSE, msg |-> StrOf(e)]
            /\ UNCHANGED <<slept, attempt>>

\* an exception e raised inside the try block
Raise(e) ==
    /\ thrown' = Append(thrown, e)
    /\ IF IsCaught(e)
       THEN Handle(e) /\ UNCHANGED exit_status
       ELSE /\ pc' = "raised"
            /\ exit_status' = 1
            /\ UNCHANGED <<last_err, slept, attempt, ret>>

\* line 163: http_get
HttpGet ==
    /\ Textures("http")
    /\ calls' = calls + 1
    /\ \/ /\ payload' = BodyOf(Cur.url)
          /\ pc' = "open"
          /\ UNCHANGED <<last_err, slept, attempt, ret, thrown, exit_status>>
       \/ \E e \in NetworkErrors : Raise(e) /\ payload' = payload
    /\ UNCHANGED <<slugVars, finderVars, foldersVars, materialsVars, prog, root, data, fs, mode, work, i, existed, seen_existing, counters, cancel_flag>>

\* lines 165-167: mkdir of the parent, open(tmp, 'wb')
OpenTmp ==
    /\ Textures("open")
    /\ \/ /\ fs' = Put(MkdirP(fs, SubSeq(Cur.dest_file, 1, Len(Cur.dest_file) - 1)),
                       TmpOf(Cur.dest_file), FileNode(payload, FALSE))
          /\ pc' = "write"
          /\ UNCHANGED <<last_err, slept, attempt, ret, thrown, exit_status>>
       \/ Raise(AccessDenied) /\ fs' = fs
    /\ UNCHANGED <<slugVars, finderVars, foldersVars, materialsVars, prog, root, data, mode, work, i, payload, calls, existed, seen_existing, counters,
                   cancel_flag>>

\* line 168: f.write(data)
WriteTmp ==
    /\ Textures("write")
    /\ \/ /\ fs' = Put(fs, TmpOf(Cur.dest_file), FileNode(payload, TRUE))
          /\ pc' = "replace"
          /\ UNCHANGED <<last_err, slept, attempt, ret, thrown, exit_status>>
       \/ Raise(DiskFull) /\ fs' = fs
    /\ UNCHANGED <<slugVars, finderVars, foldersVars, materialsVars, prog, root, data, mode, work, i, payload, calls, existed, seen_existing, counters,
                   cancel_flag>>

\* the rename of line 169
Rename(f, tmp, dest_path) == Put(Remove(f, tmp), dest_path, f[tmp])

\* lines 169-170: tmp.replace(dest_path); return True, "ok"
ReplaceTmp ==
    /\ Textures("replace")
    /\ \/ /\ fs' = Rename(fs, TmpOf(Cur.dest_file), Cur.dest_file)
          /\ pc' = "ret"
          /\ ret' = [ok |-> TRUE, msg |-> "ok"]
          /\ UNCHANGED <<last_err, slept, attempt, thrown, exit_status>>
       \/ Raise(AccessDenied) /\ fs' = fs
    /\ UNCHANGED <<slugVars, finderVars, foldersVars, materialsVars, prog, root, data, mode, work, i, payload, calls, existed, seen_existing, counters,
                   cancel_flag>>

\* the failure entry put at the head of the error list
CountResult_ErrorFirst ==
    /\ Textures("ret")
    /\ IF ret.ok
       THEN downloaded' = downloaded + 1 /\ UNCHANGED <<failed, errors>>
       ELSE /\ failed' = failed + 1
            /\ errors' = << Cur.pattern \o <<": ", ret.msg>> >> \o errors
            /\ downloaded' = downloaded
    /\ i' = i + 1
    /\ pc' = "loop"
    /\ attempt' = 0 /\ last_err' = None /\ payload' = None /\ ret' = None /\ thrown' = <<>>
    /\ calls' = 0 /\ slept' = <<>> /\ existed' = FALSE
    /\ IF mode = "gui"
       THEN \E click \in BOOLEAN : cancel_flag' = (cancel_flag \/ click)
       ELSE cancel_flag' = cancel_flag
    /\ UNCHANGED <<slugVars, finderVars, foldersVars, materialsVars, prog, root, data, fs, mode, work, skipped, seen_existing, exit_status>>

\* lines 221-225 (batch) and 402-409 (gui, with root.update())
CountResult ==
    /\ Textures("ret")
    /\ IF ret.ok
       THEN downloaded' = downloaded + 1 /\ UNCHANGED <<failed, errors>>
       ELSE /\ failed' = failed + 1
            /\ errors' = Append(errors, Cur.pattern \o <<": ", ret.msg>>)
            /\ downloaded' = downloaded
    /\ i' = i + 1
    /\ pc' = "loop"
    /\ attempt' = 0 /\ last_err' = None /\ payload' = None /\ ret' = None /\ thrown' = <<>>
    /\ calls' = 0 /\ slept' = <<>> /\ existed' = FALSE
    /\ IF mode = "gui"
       THEN \E click \in BOOLEAN : cancel_flag' = (cancel_flag \/ click)
       ELSE cancel_flag' = cancel_flag
    /\ UNCHANGED <<slugVars, finderVars, foldersVars, materialsVars, prog, root, data, fs, mode, work, skipped, seen_existing, exit_status>>

NextTextures ==
    \/ LoadCatalog
    \/ Confirm
    \/ NoPattern
    \/ SkipExisting
    \/ BeginDownload
    \/ BatchReturn
    \/ GuiBeginDownload
    \/ GuiReturn
    \/ HttpGet
    \/ OpenTmp
    \/ WriteTmp
    \/ ReplaceTmp
    \/ CountResult

SpecTextures == InitTextures /\ [][NextTextures]_vars

---------------------------------------------------------------------------
(* Properties of the fetch engine *)

InDownload == prog = "textures" /\ pc \in {"http", "open", "write", "replace", "ret"}

Returned(ok) == prog = "textures" /\ pc = "ret" /\ ret.ok = ok

\* C1: a variation whose destination file exists when its turn comes causes no
\* network call and is counted as skipped, in the batch path and in the
\* interactive path alike.
C1_ExistingIsSkipped ==
    /\ (InDownload /\ existed) => calls = 0
    /\ skipped = seen_existing

\* C2: when every attempt of a download fails with a transient condition,
\* download_with_retries makes exactly 3 attempts and returns failure with the
\* description of the last error, and the run then records exactly one failure
\* entry, naming the pattern and carrying that description.
C2_ThreeAttemptsThenOneFailure ==
    /\ [](InDownload => calls <= Retries)
    /\ [](InDownload /\ Len(thrown) = Retries => Returned(FALSE))
    /\ [](Returned(FALSE) =>
            /\ calls = Retries /\ Len(thrown) = Retries
            /\ ret.msg = StrOf(thrown[Retries]))
    /\ [][Returned(FALSE) /\ pc' # pc =>
            /\ failed' = failed + 1
            /\ errors' = Append(errors, Cur.pattern \o <<": ", StrOf(thrown[Retries])>>)
            /\ downloaded' = downloaded /\ skipped' = skipped]_vars

\* three network failures, the last one different from the first
C2_Witness ==
    /\ Returned(FALSE)
    /\ \A k \in 1..Len(thrown) : thrown[k] \in NetworkErrors
    /\ thrown[1] # thrown[3]
    /\ calls = 3

\* backoff ** k for k = 1, 2 with backoff = 1.5
ExpectedSleeps == << <<3, 2>>, <<9, 4>> >>

SleepsDue == IF Len(thrown) < Retries THEN Len(thrown) ELSE Retries - 1

\* C3: after failed attempt k < 3 the engine sleeps once for backoff^k before
\* attempt k+1, never after the final attempt or after a success; a download that
\* succeeds on attempt k makes k attempts and k-1 sleeps, is counted as downloaded
\* and adds no failure entry.
C3_BackoffBetweenAttempts ==
    /\ [](InDownload => slept = SubSeq(ExpectedSleeps, 1, SleepsDue))
    /\ [](prog = "textures" /\ pc = "http" => calls = Len(thrown) /\ attempt = calls + 1)
    /\ [](Returned(TRUE) =>
            /\ calls = Len(thrown) + 1 /\ calls <= Retries
            /\ Len(slept) = calls - 1)
    /\ [][Returned(TRUE) /\ pc' # pc =>
            /\ downloaded' = downloaded + 1
            /\ failed' = failed /\ errors' = errors]_vars

C3_Witness == Returned(TRUE) /\ calls = 3 /\ slept = << <<3, 2>>, <<9, 4>> >>

PartOf(path) == [path EXCEPT ![Len(path)] = path[Len(path)] \o <<".", "p", "a", "r", "t">>]

\* C4: while and after a download whose destination did not exist at its start,
\* the destination is absent or holds the complete body of a successful fetch;
\* partial content is only ever in the sibling named destination + ".part".
C4_DestinationNeverPartial ==
    /\ (InDownload \/ (prog = "textures" /\ pc = "raised")) /\ ~existed =>
          \/ ~Exists(fs, Cur.dest_file)
          \/ /\ fs[Cur.dest_file] = FileNode(BodyOf(Cur.url), TRUE)
             /\ payload = BodyOf(Cur.url)
    /\ prog = "textures" =>
          \A p \in DOMAIN fs :
              (fs[p].kind = "file" /\ ~fs[p].complete) =>
                  \E k \in 1..Len(work) : IsTask(work[k]) /\ p = PartOf(work[k].dest_file)

\* a write was interrupted: the partial file is the sibling, the destination is absent
C4_Witness ==
    /\ InDownload /\ ~existed /\ Len(thrown) > 0 /\ thrown[Len(thrown)] = DiskFull
    /\ ~Exists(fs, Cur.dest_file)
    /\ Exists(fs, PartOf(Cur.dest_file)) /\ ~fs[PartOf(Cur.dest_file)].complete

\* C5: whatever error a task's network attempt or file write raises, the run goes
\* on: a run that was not cancelled ends only after every element of its work list
\* had its turn.
C5_NoFailureEndsTheRun ==
    (prog = "textures" /\ pc \in {"done", "raised"} /\ ~cancel_flag) => i > Len(work)

---------------------------------------------------------------------------
(* create-folders.py *)

CollectionDefault == <<"c", "o", "l", "l", "e", "c", "t", "i", "o", "n">>
SubcollectionDefault == <<"s", "u", "b">> \o CollectionDefault

\* create_structure, line 90
folders_col_name(collection) ==
    Or(Or(Get(collection, "collection-name"), Get(collection, "name")), CollectionDefault)

\* create_structure, line 104
folders_sub_name(sub) ==
    Or(Or(Get(sub, "subcollection-name"), Get(sub, "name")), SubcollectionDefault)

\* the directories a mutated walk would also make: one per variation
NodesOfCollection_WithVariations(collection) ==
    LET col_path == << slugify(folders_col_name(collection)) >>
        subcollections == get_subcollection_list(collection)
        SubNodes(sub) ==
            LET sub_path == Append(col_path, slugify(folders_sub_name(sub)))
            IN  << [level |-> 2, path |-> sub_path] >> \o
                [k \in 1..Len(get_variations_list(sub)) |->
                    [level |-> 3, path |-> Append(sub_path, <<"v">>)]]
    IN  << [level |-> 1, path |-> col_path] >> \o
        Concat([k \in 1..Len(subcollections) |-> SubNodes(subcollections[k])])

\* The nodes the loops of create_structure (lines 88-113) visit for one collection,
\* in order: the collection's directory, then one directory per subcollection.
NodesOfCollection(collection) ==
    LET col_path == << slugify(folders_col_name(collection)) >>
        subcollections == get_subcollection_list(collection)
    IN  << [level |-> 1, path |-> col_path] >> \o
        [k \in 1..Len(subcollections) |->
            [level |-> 2, path |-> Append(col_path, slugify(folders_sub_name(subcollections[k])))]]

Nodes(collections) == Concat([k \in 1..Len(collections) |-> NodesOfCollection(collections[k])])

\* ensure_dir without the exists() test: mkdir(exist_ok=True) and return True
ensure_dir_NoExistsTest(f, path, denied) ==
    IF denied \/ BlockedByFile(f, path)
    THEN [created |-> FALSE, fs |-> f, raised |-> FALSE]
    ELSE [created |-> TRUE, fs |-> MkdirP(f, path), raised |-> FALSE]

\* ensure_dir without the try/except around mkdir
ensure_dir_NoCatch(f, path, denied) ==
    IF Exists(f, path) THEN [created |-> FALSE, fs |-> f, raised |-> FALSE]
    ELSE IF denied \/ BlockedByFile(f, path)
         THEN [created |-> FALSE, fs |-> f, raised |-> TRUE]
         ELSE [created |-> TRUE, fs |-> MkdirP(f, path), raised |-> FALSE]

\* ensure_dir (lines 59-79).  denied: mkdir raises (permissions); it also raises
\* when a parent of the path is a file.  raised: an exception leaves ensure_dir.
ensure_dir(f, path, denied) ==
    IF Exists(f, path) THEN [created |-> FALSE, fs |-> f, raised |-> FALSE]
    ELSE IF denied \/ BlockedByFile(f, path)
         THEN [created |-> FALSE, fs |-> f, raised |-> FALSE]
         ELSE [created |-> TRUE, fs |-> MkdirP(f, path), raised |-> FALSE]

MaxPreDirs == 2

NodePaths(d) == {Nodes(d)[k].path : k \in 1..Len(Nodes(d))}

\* a tree left by earlier runs: the directories of S with their parents, a texture
\* in every subcollection directory, and the paths of F present as plain files
TreeWith(S, F) ==
    LET dirs == UNION {Prefixes(p) : p \in S} \ F
        texture(p) == Append(p, <<"t", ".", "j", "p", "g">>)
        files == {texture(p) : p \in {q \in dirs : Len(q) = 2}}
    IN  [p \in dirs \cup files \cup F |-> IF p \in dirs THEN DirNode ELSE OldFile]

InitFolders ==
    /\ prog = "folders"
    /\ CatalogFile
    /\ \E S \in SUBSET NodePaths(data) :
          /\ Cardinality(S) <= MaxPreDirs
          /\ \E F \in SUBSET {p \in NodePaths(data) : Len(p) = 1} :
                /\ Cardinality(F) <= 1
                /\ \A p \in S : Prefixes(p) \cap F = {}
                /\ fs = TreeWith(S, F)
    /\ pc = "start"
    /\ run = 1 /\ nodes = <<>> /\ ni = 0 /\ summary = ZeroSummary /\ visited = <<>> /\ prev = None
    /\ TexturesIdle /\ MaterialsIdle /\ FinderIdle /\ SlugIdle

Count(summ, level, created) ==
    IF level = 1
    THEN IF created
         THEN [summ EXCEPT !.created_collections = @ + 1]
         ELSE [summ EXCEPT !.existing_collections = @ + 1]
    ELSE IF created
         THEN [summ EXCEPT !.created_subcollections = @ + 1]
         ELSE [summ EXCEPT !.existing_subcollections = @ + 1]

\* main, lines 151 and 165: load_collections, then create_structure's locals
\* load_collections raises ValueError for a root that is not a list (lines 54-55);
\* main prints it and returns (lines 153-156)
LoadCollections ==
    /\ prog = "folders" /\ pc = "start"
    /\ IF root # "list"
       THEN pc' = "schema_error" /\ UNCHANGED <<nodes, ni, summary, visited>>
       ELSE /\ nodes' = Nodes(data)
            /\ ni' = 1 /\ summary' = ZeroSummary /\ visited' = <<>>
            /\ pc' = "walk"
    /\ UNCHANGED <<slugVars, finderVars, texturesVars, materialsVars, prog, root, data, fs, run, prev>>

\* one pass of a loop body of create_structure: lines 90-99 or 104-113
VisitNode ==
    /\ prog = "folders" /\ pc = "walk" /\ ni <= Len(nodes)
    /\ \E denied \in BOOLEAN :
          LET node == nodes[ni]
              r == ensure_dir(fs, node.path, denied)
          IN  /\ fs' = r.fs
              /\ visited' = Append(visited, [level |-> node.level, path |-> node.path,
                                             present |-> Exists(fs, node.path),
                                             made |-> Exists(r.fs, node.path) /\ ~Exists(fs, node.path)])
              /\ IF r.raised
                 THEN pc' = "raised" /\ UNCHANGED <<summary, ni>>
                 ELSE /\ summary' = Count(summary, node.level, r.created)
                      /\ ni' = ni + 1
                      /\ pc' = pc
    /\ UNCHANGED <<slugVars, finderVars, texturesVars, materialsVars, prog, root, data, run, nodes, prev>>

\* create_structure returns its counters (lines 115-120)
ReturnSummary ==
    /\ prog = "folders" /\ pc = "walk" /\ ni > Len(nodes)
    /\ pc' = "done"
    /\ UNCHANGED <<slugVars, finderVars, texturesVars, materialsVars, prog, root, data, fs, run, nodes, ni, summary, visited, prev>>

\* the script is run again on the same catalog and destination
RunAgain ==
    /\ prog = "folders" /\ pc = "done" /\ run = 1
    /\ prev' = [summary |-> summary, visited |-> visited, fs |-> fs]
    /\ run' = 2
    /\ pc' = "start"
    /\ UNCHANGED <<slugVars, finderVars, texturesVars, materialsVars, prog, root, data, fs, nodes, ni, summary, visited>>

NextFolders == LoadCollections \/ VisitNode \/ ReturnSummary \/ RunAgain

SpecFolders == InitFolders /\ [][NextFolders]_vars

---------------------------------------------------------------------------
(* Properties of the materializer *)

RECURSIVE SumLens(_)
SumLens(ss) == IF ss = <<>> THEN 0 ELSE Len(Head(ss)) + SumLens(Tail(ss))

\* the collection entries and the subcollection entries of a catalog
NumCollections(d) == Len(d)
NumSubcollections(d) == SumLens([k \in 1..Len(d) |-> get_subcollection_list(d[k])])

\* no visit of the log met an absent directory that could not be made
NoFailure(log) == \A k \in 1..Len(log) : log[k].present \/ log[k].made

\* the visits of the log at a level that met the directory present / made it
HowMany(log, level, present, made) ==
    Cardinality({k \in 1..Len(log) :
        log[k].level = level /\ log[k].present = present /\ log[k].made = made})

\* C6: a second run of create_structure on the same catalog and destination, with
\* no directory-creation failure, creates nothing: created = 0 at both levels,
\* existing = the number of collection and of subcollection nodes, and the tree is
\* the tree the first run left.
C6_SecondRunCreatesNothing ==
    (prog = "folders" /\ run = 2 /\ pc = "done"
        /\ NoFailure(prev.visited) /\ NoFailure(visited)) =>
        /\ summary.created_collections = 0
        /\ summary.created_subcollections = 0
        /\ summary.existing_collections = NumCollections(data)
        /\ summary.existing_subcollections = NumSubcollections(data)
        /\ fs = prev.fs

\* one collection with one subcollection on an empty destination: 1/0 then 0/1
C6_Witness ==
    /\ prog = "folders" /\ run = 2 /\ pc = "done"
    /\ NoFailure(prev.visited) /\ NoFailure(visited)
    /\ prev.summary = [created_collections |-> 1, existing_collections |-> 0,
                       created_subcollections |-> 1, existing_subcollections |-> 0]
    /\ summary = [created_collections |-> 0, existing_collections |-> 1,
                  created_subcollections |-> 0, existing_subcollections |-> 1]

\* C7: no step of the materializer removes or replaces anything that exists, and
\* what a step adds is a directory at collection or subcollection level.
C7_OnlyAddsDirectories ==
    [][prog = "folders" =>
          /\ \A p \in DOMAIN fs : p \in DOMAIN fs' /\ fs'[p] = fs[p]
          /\ \A p \in DOMAIN fs' \ DOMAIN fs : fs'[p] = DirNode /\ Len(p) <= 2]_vars

\* a directory was made in a tree that already held a directory and a file
C7_Witness ==
    /\ prog = "folders" /\ pc = "walk"
    /\ \E k \in 1..Len(visited) : visited[k].made
    /\ \E k \in 1..Len(visited) : visited[k].present
    /\ \E p \in DOMAIN fs : fs[p] = OldFile

\* C8: a directory-creation failure at one node is reported and the walk goes on:
\* create_structure visits every collection and subcollection node in order and
\* returns its four counters.
C8_FailureDoesNotEndWalk ==
    prog = "folders" =>
        /\ pc # "raised"
        /\ pc = "done" =>
              /\ Len(visited) = NumCollections(data) + NumSubcollections(data)
              /\ \A k \in 1..Len(visited) :
                    visited[k].path = nodes[k].path /\ visited[k].level = nodes[k].level
              /\ summary.created_collections + summary.existing_collections
                    = NumCollections(data)
              /\ summary.created_subcollections + summary.existing_subcollections
                    = NumSubcollections(data)

\* the walk is over and a node before the last one could not be made
C8_Witness ==
    /\ prog = "folders" /\ pc = "done"
    /\ \E k \in 1..(Len(visited) - 1) : ~visited[k].present /\ ~visited[k].made

\* C9: at each level "created" counts the nodes whose directory was absent when
\* visited and was made by the run, "existing" the nodes whose directory was
\* present when visited; a node that was absent and could not be made is in neither.
C9_CountersClassifyTruthfully ==
    (prog = "folders" /\ pc \in {"walk", "done"}) =>
        /\ summary.created_collections = HowMany(visited, 1, FALSE, TRUE)
        /\ summary.existing_collections = HowMany(visited, 1, TRUE, FALSE)
        /\ summary.created_subcollections = HowMany(visited, 2, FALSE, TRUE)
        /\ summary.existing_subcollections = HowMany(visited, 2, TRUE, FALSE)

---------------------------------------------------------------------------
(* create_materials.py *)

PARENT_MATERIAL_OBJECT_PATH == <<"/Game/Materials/MI_Sample.MI_Sample">>
BaseAssetRootVendor == <<"/Game/Materials", "/", "MayerFabrics">>

\* build_material_specs, lines 208-229: the spec of one variation, or none
SpecsOfVariation(coll_raw, sub_raw, var) ==
    LET coll_folder == sanitize_folder(coll_raw)
        sub_folder == sanitize_folder(sub_raw)
        coll_tok == sanitize_token(coll_raw)
        sub_tok == sanitize_token(sub_raw)
        var_tok == sanitize_token(get_variation_label(var))
        name == <<"M", "I", "_">> \o coll_tok \o <<"_">> \o sub_tok \o <<"_">> \o var_tok
        package_path == BaseAssetRootVendor \o <<"/">> \o coll_folder \o <<"/">> \o sub_folder
        asset_path == package_path \o <<"/">> \o name
    IN  IF ~(coll_tok # <<>> /\ sub_tok # <<>> /\ var_tok # <<>>) THEN <<>>
        ELSE << [name |-> name,
                 package_path |-> package_path,
                 asset_path |-> asset_path,
                 object_path |-> asset_path \o <<".">> \o name,
                 filesystem_path |-> << coll_folder, sub_folder,
                                        name \o <<".", "u", "a", "s", "s", "e", "t">> >>,
                 parent |-> PARENT_MATERIAL_OBJECT_PATH] >>

\* build_material_specs, lines 203-208
SpecsOfSub(coll_raw, sub) ==
    LET sub_raw == get_subcollection_name(sub)
        vs == get_variations_list(sub)
    IN  IF sub_raw = <<>> THEN <<>>
        ELSE Concat([k \in 1..Len(vs) |-> SpecsOfVariation(coll_raw, sub_raw, vs[k])])

\* build_material_specs, lines 197-203
SpecsOfColl(coll) ==
    LET coll_raw == get_collection_name(coll)
        sub_list == get_subcollection_list(coll)
    IN  IF coll_raw = <<>> THEN <<>>
        ELSE Concat([k \in 1..Len(sub_list) |-> SpecsOfSub(coll_raw, sub_list[k])])

build_material_specs(d) == Concat([k \in 1..Len(d) |-> SpecsOfColl(d[k])])

InitMaterials ==
    /\ prog = "materials"
    /\ CatalogFile
    /\ fs = << >>
    /\ pc = "start"
    /\ specs = None
    /\ TexturesIdle /\ FoldersIdle /\ FinderIdle /\ SlugIdle

\* main, lines 355-361: json.load, build_material_specs, print
BuildSpecs ==
    /\ prog = "materials" /\ pc = "start"
    /\ IF root # "list" /\ RootTruthy(root)
       THEN pc' = "type_error" /\ specs' = specs
       ELSE /\ specs' = build_material_specs(DataOrEmpty(root, data))
            /\ pc' = "done"
    /\ UNCHANGED <<slugVars, finderVars, texturesVars, foldersVars, prog, root, data, fs>>

NextMaterials == BuildSpecs

---------------------------------------------------------------------------
(* Any of the three scripts, run on a catalog *)

Init == InitTextures \/ InitFolders \/ InitMaterials

Next == NextTextures \/ NextFolders \/ NextMaterials

Spec == Init /\ [][Next]_vars

---------------------------------------------------------------------------
(* Properties across the scripts *)

IsBlank(v) == v = None \/ \A k \in 1..Len(v) : v[k] \in {" ", "\t", "\n"}

\* the entry's name under the two-name scheme: the first of the two keys with a
\* non-empty value
NameUnder(entry, key1, key2) ==
    IF key1 \in DOMAIN entry /\ entry[key1] # <<>> THEN entry[key1]
    ELSE IF key2 \in DOMAIN entry /\ entry[key2] # <<>> THEN entry[key2]
    ELSE None

\* the variation items under collections and subcollections that have a name, in
\* catalog order
NamedVariationSeq(d) ==
    LET OfSub(sub) ==
            IF IsBlank(NameUnder(sub, "subcollection-name", "name")) THEN <<>>
            ELSE get_variations_list(sub)
        OfColl(coll) ==
            IF IsBlank(NameUnder(coll, "collection-name", "collection")) THEN <<>>
            ELSE Concat([b \in 1..Len(get_subcollection_list(coll)) |->
                            OfSub(get_subcollection_list(coll)[b])])
    IN  Concat([c \in 1..Len(d) |-> OfColl(d[c])])

NamedVariations(d) == Range(NamedVariationSeq(d))

PatternsOf(items) ==
    {Strip(v.d["variation-pattern"]) :
        v \in {w \in items : w.json = "dict" /\ "variation-pattern" \in DOMAIN w.d}}

\* the fetch engine and the asset-spec builder pass over nameless nodes
NamelessDroppedByFetchAndSpecs ==
    /\ (prog = "textures" /\ pc # "start") =>
          /\ Len(work) <= Len(NamedVariationSeq(data))
          /\ \A k \in 1..Len(work) :
                IsTask(work[k]) => work[k].pattern \in PatternsOf(NamedVariations(data))
    /\ (prog = "textures" /\ InDownload) => Cur.pattern \in PatternsOf(NamedVariations(data))
    /\ (prog = "textures") =>
          \A p \in DOMAIN fs : (Len(p) = 3 /\ fs[p] # OldFile) =>
              \E pat \in PatternsOf(NamedVariations(data)) :
                  p[3] = pat \o <<".", "j", "p", "g">> \/ p[3] = pat \o <<".", "j", "p", "g", ".", "p", "a", "r", "t">>
    /\ (prog = "materials" /\ pc = "done") =>
          /\ Len(specs) <= Len(NamedVariationSeq(data))
          /\ \A k \in 1..Len(specs) :
                \E v \in NamedVariations(data) :
                    LET tok == sanitize_token(get_variation_label(v))
                        n == specs[k].name
                    IN  Len(n) > Len(tok) /\ SubSeq(n, Len(n) - Len(tok) + 1, Len(n)) = tok

\* the collections / subcollections that have a name for create_structure
\* ("collection-name" else "name"; "subcollection-name" else "name")
FolderNamedNodes(d) ==
    Cardinality({c \in 1..Len(d) : ~IsBlank(NameUnder(d[c], "collection-name", "name"))})
    + SumLens([c \in 1..Len(d) |->
          IF IsBlank(NameUnder(d[c], "collection-name", "name")) THEN <<>>
          ELSE SelectSeq(get_subcollection_list(d[c]),
                         LAMBDA sub : ~IsBlank(NameUnder(sub, "subcollection-name", "name")))])

Unnamed == <<"u", "n", "n", "a", "m", "e", "d">>

\* the directory name create_structure gives a node without a name
Placeholder(entry, key, default) ==
    IF NameUnder(entry, key, "name") = None THEN default ELSE Unnamed

---------------------------------------------------------------------------
(* Variations without a usable pattern *)

\* the variation has a usable pattern: a structured object whose
\* "variation-pattern" is present and not blank
UsablePattern(v) ==
    v.json = "dict" /\ "variation-pattern" \in DOMAIN v.d /\ ~IsBlank(v.d["variation-pattern"])

\* the variations under named collections and subcollections, each with the names
\* above it, in catalog order
NamedEntries(d) ==
    LET OfSub(coll, sub) ==
            IF IsBlank(NameUnder(sub, "subcollection-name", "name")) THEN <<>>
            ELSE [k \in 1..Len(get_variations_list(sub)) |->
                    [coll |-> NameUnder(coll, "collection-name", "collection"),
                     sub |-> NameUnder(sub, "subcollection-name", "name"),
                     var |-> get_variations_list(sub)[k]]]
        OfColl(coll) ==
            IF IsBlank(NameUnder(coll, "collection-name", "collection")) THEN <<>>
            ELSE Concat([b \in 1..Len(get_subcollection_list(coll)) |->
                            OfSub(coll, get_subcollection_list(coll)[b])])
    IN  Concat([c \in 1..Len(d) |-> OfColl(d[c])])

UsablePatterns(d) ==
    {Strip(NamedEntries(d)[k].var.d["variation-pattern"]) :
        k \in {j \in 1..Len(NamedEntries(d)) : UsablePattern(NamedEntries(d)[j].var)}}

\* the fetch engine makes a task, and a network call, only for a usable pattern
FetchNeedsPattern ==
    /\ (prog = "textures" /\ mode = "gui" /\ pc # "start") =>
          \A k \in 1..Len(work) : work[k].pattern \in UsablePatterns(data)
    /\ (prog = "textures" /\ (InDownload \/ pc = "raised")) =>
          Cur.pattern \in UsablePatterns(data)
    /\ (prog = "textures" /\ ~InDownload /\ pc # "raised") => calls = 0

\* the name build_material_specs gives the entry, <<>> when one of its tokens is empty
MaterialName(e) ==
    LET coll_tok == sanitize_token(e.coll)
        sub_tok == sanitize_token(e.sub)
        var_tok == sanitize_token(get_variation_label(e.var))
    IN  IF coll_tok = <<>> \/ sub_tok = <<>> \/ var_tok = <<>> THEN <<>>
        ELSE <<"M", "I", "_">> \o coll_tok \o <<"_">> \o sub_tok \o <<"_">> \o var_tok

\* C11 as stated: a variation without a usable pattern (a bare legacy string, or an
\* object whose variation-pattern is missing or blank) yields no AssetSpec from
\* build_material_specs and no DownloadTask or network call in the fetch engine.
C11_PatternlessYieldsNothing ==
    /\ FetchNeedsPattern
    /\ (prog = "materials" /\ pc = "done") =>
          Len(specs) <= Cardinality({k \in 1..Len(NamedEntries(data)) :
                                        UsablePattern(NamedEntries(data)[k].var)})

\* C11 as amended: the fetch engine makes no task and no network call for such a
\* variation; build_material_specs does not look at the pattern alone: it emits
\* one AssetSpec, in catalog order, for every variation under a named collection
\* and subcollection whose collection name, subcollection name and label (name and
\* pattern, or the one present, or the bare legacy string) each give a non-empty
\* token, and none for the others.
C11_PatternlessFetchesNothingYetMayYieldSpec ==
    /\ FetchNeedsPattern
    /\ (prog = "materials" /\ pc = "done") =>
          LET named == SelectSeq(NamedEntries(data), LAMBDA e : MaterialName(e) # <<>>)
          IN  /\ Len(specs) = Len(named)
              /\ \A k \in 1..Len(specs) : specs[k].name = MaterialName(named[k])

\* build_material_specs emitted a spec for a bare legacy string
C11_Witness ==
    /\ prog = "materials" /\ pc = "done"
    /\ \E k \in 1..Len(NamedEntries(data)) :
          /\ NamedEntries(data)[k].var = VStr(<<"r">>)
          /\ \E j \in 1..Len(specs) : specs[j].name = MaterialName(NamedEntries(data)[k])
    /\ \E j \in 1..Len(specs) : specs[j].name = <<"M", "I", "_", "W", "O", "_", "H", "E", "_", "R">>

NoPatternPrefix == "Sin 'variation-pattern' -> "

\* the variations without a usable pattern under named nodes, in catalog order
PatternlessEntries(d) == SelectSeq(NamedEntries(d), LAMBDA e : ~UsablePattern(e.var))

\* the soft-error entries of the error list
SoftErrors(errs) == SelectSeq(errs, LAMBDA m : m[1] = NoPatternPrefix)

\* C12: when a run of the fetch engine that was not cancelled ends, its error list
\* holds exactly one soft-error entry per variation without a usable pattern,
\* naming the variation's collection and subcollection, in the batch path and in
\* the interactive path alike.
C12_PatternlessRecordedOnce ==
    (prog = "textures" /\ pc = "done" /\ ~cancel_flag) =>
        /\ Len(SoftErrors(errors)) = Len(PatternlessEntries(data))
        /\ \A k \in 1..Len(SoftErrors(errors)) :
              SoftErrors(errors)[k] =
                  << NoPatternPrefix >> \o Strip(PatternlessEntries(data)[k].coll)
                      \o <<"/">> \o Strip(PatternlessEntries(data)[k].sub)

\* the fetches of the run that exhausted their retries: the entries of the error
\* list that are not soft errors
FetchFailures == Len(errors) - Len(SoftErrors(errors))

BatchEnded == prog = "textures" /\ mode = "batch" /\ pc \in {"done", "raised", "type_error"}

\* C13 as stated: in batch mode the exit status of a completed run is 0 exactly
\* when no fetch failed in the run; skipped tasks do not change it.
C13_ExitZeroIffNoFetchFailed ==
    (BatchEnded /\ pc = "done") => (exit_status = 0 <=> FetchFailures = 0)

\* C13 as amended: in batch mode the exit status is 0 exactly when process_all
\* returned with failed = 0, that is when no fetch exhausted its retries and no
\* variation without a usable pattern was met; otherwise it is 1, also when an
\* exception that download_with_retries does not catch ended the run.
C13_ExitZeroIffNothingCountedFailed ==
    /\ BatchEnded => exit_status \in {0, 1}
    /\ BatchEnded =>
          (exit_status = 0 <=>
              pc = "done" /\ FetchFailures = 0 /\ Len(PatternlessEntries(data)) = 0)
    /\ (prog = "textures" /\ mode = "batch" /\ ~BatchEnded) => exit_status = -1

\* a batch run skipped a file, downloaded another, failed none and exited with 0
C13_Witness ==
    /\ BatchEnded /\ pc = "done"
    /\ skipped > 0 /\ downloaded > 0 /\ failed = 0
    /\ exit_status = 0

\* a batch run in which a fetch exhausted its retries exited with 1
C13_WitnessFailure ==
    BatchEnded /\ pc = "done" /\ FetchFailures > 0 /\ exit_status = 1

---------------------------------------------------------------------------
(* find_json_file of create_materials.py and of downloadTextures.py *)
(* A filesystem path is the sequence of its components below the root; the   *)
(* paths are absolute and without links, so expanduser().resolve() leaves    *)
(* them as they are.                                                         *)

\* Path.parent: the root is its own parent
Parent(p) == IF p = <<>> THEN <<>> ELSE SubSeq(p, 1, Len(p) - 1)

\* Path.name
NameOf(p) == IF p = <<>> THEN "" ELSE p[Len(p)]

\* create_materials.py, JSON: the hardcoded candidates (none)
JSON == <<>>

DEFAULT_JSON_CANDIDATES == <<"collections.json", "okcollections.json">>

\* raise FileNotFoundError(...)
FileNotFoundError == <<"FileNotFoundError">>

\* script_dir.name.lower() == 'python'
IsPythonDir(p) == NameOf(p) \in {"Python", "python", "PYTHON"}

RECURSIVE Unique(_, _)
\* the filter of duplicates that keeps the order
Unique(cands, seen) ==
    IF cands = <<>> THEN <<>>
    ELSE IF Head(cands) \in seen THEN Unique(Tail(cands), seen)
         ELSE <<Head(cands)>> \o Unique(Tail(cands), seen \cup {Head(cands)})

RECURSIVE FirstExisting(_, _)
\* the first candidate that exists, or the error
FirstExisting(cands, files) ==
    IF cands = <<>> THEN FileNotFoundError
    ELSE IF Head(cands) \in files THEN Head(cands)
         ELSE FirstExisting(Tail(cands), files)

RECURSIVE Ascend(_, _)
\* create_materials.py, lines 143-150
Ascend(current, levels) ==
    IF levels = 0 THEN <<>>
    ELSE << current \o <<"Python", "collections.json">>,
            Append(current, "collections.json"),
            Append(current, "okcollections.json") >>
         \o Ascend(Parent(current), levels - 1)

\* the environment path looked at after the script's directory
materials_candidates_EnvAfterScriptDir(sd, env) ==
    JSON
    \o << Append(sd, "collections.json"), Append(sd, "okcollections.json") >>
    \o (IF env # None THEN <<env>> ELSE <<>>)
    \o Ascend(sd, 4)

\* create_materials.py, lines 124-150: candidates
materials_candidates(sd, env) ==
    (IF env # None THEN <<env>> ELSE <<>>)
    \o JSON
    \o << Append(sd, "collections.json"), Append(sd, "okcollections.json") >>
    \o Ascend(sd, 4)

\* create_materials.py, find_json_file
find_json_file_materials(cli, env, sd, files) ==
    IF cli # None
    THEN IF cli \in files THEN cli ELSE FileNotFoundError
    ELSE FirstExisting(Unique(materials_candidates(sd, env), {}), files)

\* downloadTextures.py, lines 103-104 and 110-112, 118-120: the candidates of one directory
NamesIn(dir) == [k \in 1..Len(DEFAULT_JSON_CANDIDATES) |-> Append(dir, DEFAULT_JSON_CANDIDATES[k])]

PythonAndSelf(dir) ==
    Concat([k \in 1..Len(DEFAULT_JSON_CANDIDATES) |->
              << dir \o <<"Python", DEFAULT_JSON_CANDIDATES[k]>>,
                 Append(dir, DEFAULT_JSON_CANDIDATES[k]) >>])

RECURSIVE Climb(_, _)
\* downloadTextures.py, lines 115-120
Climb(cur, levels) ==
    IF levels = 0 THEN <<>>
    ELSE PythonAndSelf(Parent(cur)) \o Climb(Parent(cur), levels - 1)

\* downloadTextures.py, lines 100-120: candidates
textures_candidates(sd) ==
    LET project_root == IF IsPythonDir(sd) THEN Parent(sd) ELSE sd
    IN  NamesIn(sd) \o PythonAndSelf(project_root) \o Climb(project_root, 3)

\* downloadTextures.py, find_json_file
find_json_file_textures(cli, env, sd, files) ==
    IF cli # None
    THEN IF cli \in files THEN cli ELSE FileNotFoundError
    ELSE IF env # None /\ env \in files THEN env
    ELSE FirstExisting(Unique(textures_candidates(sd), {}), files)

MaxFiles == 2

ScriptDirs == { <<"R", "P", "Python">>, <<"R", "tools">> }

ExplicitPath == <<"R", "x.json">>
EnvPaths(sd) == { <<"R", "e.json">>, Append(sd, "okcollections.json") }

\* every path find_json_file can look at
Lookable(sd) ==
    Range(materials_candidates(sd, None)) \cup Range(textures_candidates(sd))
    \cup {ExplicitPath} \cup EnvPaths(sd)

InitFinder ==
    /\ prog = "find_json_file"
    /\ script \in {"create_materials.py", "downloadTextures.py"}
    /\ script_dir \in ScriptDirs
    /\ cli_path \in {None, ExplicitPath}
    /\ env_path \in {None} \cup EnvPaths(script_dir)
    /\ on_disk \in {S \in SUBSET Lookable(script_dir) : Cardinality(S) <= MaxFiles}
    /\ found = None
    /\ pc = "start"
    /\ root = "list" /\ data = <<>> /\ fs = << >>
    /\ TexturesIdle /\ FoldersIdle /\ MaterialsIdle /\ SlugIdle

\* the call of find_json_file in main (create_materials.py 351, downloadTextures.py 289)
FindJsonFile ==
    /\ prog = "find_json_file" /\ pc = "start"
    /\ found' = IF script = "create_materials.py"
                THEN find_json_file_materials(cli_path, env_path, script_dir, on_disk)
                ELSE find_json_file_textures(cli_path, env_path, script_dir, on_disk)
    /\ pc' = "done"
    /\ UNCHANGED <<slugVars, texturesVars, foldersVars, materialsVars, prog, root, data, fs,
                   script, script_dir, cli_path, env_path, on_disk>>

NextFinder == FindJsonFile

SpecFinder == InitFinder /\ [][NextFinder]_vars

---------------------------------------------------------------------------
(* Properties of find_json_file *)

Found == prog = "find_json_file" /\ pc = "done"

RECURSIVE Ancestor(_, _)
Ancestor(p, k) == IF k = 0 THEN p ELSE Ancestor(Parent(p), k - 1)

\* the conventional catalog files of a directory
ConventionalIn(dir) ==
    { Append(dir, "collections.json"), Append(dir, "okcollections.json"),
      dir \o <<"Python", "collections.json">>, dir \o <<"Python", "okcollections.json">> }

\* The place of a path in the discovery order: 1 the explicit path, 2 the
\* environment path, 3 a hardcoded path, 4 a conventional filename in the script's
\* directory, 5 + k a conventional file of the k-th ancestor of that directory;
\* 99 when the path is not a candidate.
Place(p) ==
    IF p = cli_path THEN 1
    ELSE IF p = env_path THEN 2
    ELSE IF p \in Range(JSON) THEN 3
    ELSE IF p \in {Append(script_dir, "collections.json"), Append(script_dir, "okcollections.json")}
         THEN 4
    ELSE IF \E k \in 0..4 : p \in ConventionalIn(Ancestor(script_dir, k))
         THEN 5 + CHOOSE k \in 0..4 : /\ p \in ConventionalIn(Ancestor(script_dir, k))
                                       /\ \A j \in 0..(k - 1) : p \notin ConventionalIn(Ancestor(script_dir, j))
    ELSE 99

\* the candidates the script looks at
IsCandidate(p) ==
    IF script = "create_materials.py"
    THEN p \in (Range(materials_candidates(script_dir, env_path)) \cup {cli_path}) \ {None}
    ELSE p \in (Range(textures_candidates(script_dir)) \cup {cli_path, env_path}) \ {None}

\* found is the existing candidate that comes first in the order among those of cands
FirstInOrder(cands) ==
    IF cands \cap on_disk = {} THEN found = FileNotFoundError
    ELSE /\ found \in cands \cap on_disk
         /\ \A q \in cands \cap on_disk : Place(found) <= Place(q)

\* C14 as stated: find_json_file returns the first existing candidate in the order
\* explicit path, environment path, hardcoded paths, conventional filenames in the
\* script's directory, ancestor directories; it raises the not-found error only
\* when no candidate of the whole list exists.
C14_FirstExistingOfWholeList ==
    Found => FirstInOrder({p \in Lookable(script_dir) : IsCandidate(p)})

\* C14 as amended: with an explicit path, find_json_file returns that path when it
\* exists and raises the not-found error when it does not, whatever else exists;
\* without one it returns the first existing candidate in the order environment
\* path, hardcoded paths, conventional filenames in the script's directory,
\* ancestor directories, and raises only when none of these exists.
C14_ExplicitPathOrFirstExisting ==
    Found =>
        IF cli_path # None
        THEN found = (IF cli_path \in on_disk THEN cli_path ELSE FileNotFoundError)
        ELSE FirstInOrder({p \in Lookable(script_dir) : IsCandidate(p)})

\* the explicit path does not exist, a conventional file does, and the error is raised
C14_Witness ==
    /\ Found /\ cli_path = ExplicitPath /\ cli_path \notin on_disk
    /\ Append(script_dir, "collections.json") \in on_disk
    /\ found = FileNotFoundError

\* without an explicit path, the environment path wins over a conventional file
C14_WitnessOrder ==
    /\ Found /\ cli_path = None /\ env_path = <<"R", "e.json">>
    /\ on_disk = {env_path, Append(script_dir, "collections.json")}
    /\ found = env_path

---------------------------------------------------------------------------
(* A catalog whose root is not a list *)

\* the script has ended with an error: the ValueError of load_collections, or an
\* exception that ended the run
EndedInError == pc \in {"schema_error", "type_error"}

\* C15: in every component a catalog whose JSON root is not a list is a fatal
\* error: the script never completes as it does on a catalog, it creates no
\* directory, emits no AssetSpec, attempts no download, and the fetch program does
\* not exit with success.
C15_NonListRootIsFatal ==
    (root # "list" /\ prog \in {"textures", "folders", "materials"}) =>
        /\ pc = "start" \/ EndedInError
        /\ DOMAIN fs = {}
        /\ specs = None
        /\ calls = 0 /\ work = <<>>
        /\ exit_status # 0

\* the materializer on such a root: the error, and nothing made
C15_FoldersRejectNonList ==
    (root # "list" /\ prog = "folders") =>
        /\ pc \in {"start", "schema_error"}
        /\ DOMAIN fs = {} /\ visited = <<>>

---------------------------------------------------------------------------
(* Cancellation in the interactive loop *)

Gui == prog = "textures" /\ mode = "gui"

\* the tasks whose turn has begun: the cancel test of line 395 was passed
Started == IF InDownload \/ pc = "raised" THEN i ELSE i - 1

\* the tasks whose outcome was counted
Counted == downloaded + failed

\* with the flag set the loop starts no task, and leaving the loop changes no counter;
\* a download in flight is left only by its own return
CancelWaitsForBoundary ==
    /\ [][(Gui /\ cancel_flag /\ pc = "loop") =>
             (pc' = "done" /\ i' = i /\ fs' = fs /\ calls' = 0
              /\ downloaded' = downloaded /\ failed' = failed /\ errors' = errors)]_vars
    /\ [][(Gui /\ cancel_flag /\ InDownload) => pc' \in {"http", "open", "write", "replace", "ret", "loop", "raised"}]_vars
    /\ [][(Gui /\ cancel_flag /\ pc = "ret") =>
             (pc' = "loop" /\ i' = i + 1 /\ downloaded' + failed' = downloaded + failed + 1)]_vars

\* C16: in the interactive loop, once the cancel flag is set, the task in flight
\* runs to the end of its attempts and its outcome is counted, and no task is
\* started afterwards: a cancelled run ends at a task boundary with every started
\* task counted.
C16_CancelOnlyAtTaskBoundaries ==
    (Gui /\ cancel_flag) =>
        /\ pc # "raised"
        /\ pc = "done" => Counted = Started /\ Started < Len(work) + 1

\* a run cancelled while its first task was in flight, ended after that task with
\* tasks left
C16_CancelledAtBoundary ==
    Gui /\ cancel_flag /\ pc = "done" /\ Counted = 1 /\ i = 2 /\ Len(work) > 1

---------------------------------------------------------------------------
(* The two-name scheme *)

\* the place in nodes of the directory of collection c of the catalog
CollectionNode(d, c) == c + SumLens([k \in 1..(c - 1) |-> get_subcollection_list(d[k])])

\* the materializer names the directories after the names of the scheme
FoldersUseTheScheme ==
    (prog = "folders" /\ root = "list" /\ pc \in {"walk", "done"}) =>
        \A c \in 1..Len(data) :
            LET coll_name == NameUnder(data[c], "collection-name", "collection")
                subs == get_subcollection_list(data[c])
            IN  /\ ~IsBlank(coll_name) =>
                      nodes[CollectionNode(data, c)].path = << slugify(coll_name) >>
                /\ \A b \in 1..Len(subs) :
                      LET sub_name == NameUnder(subs[b], "subcollection-name", "name")
                      IN  ~IsBlank(sub_name) =>
                              nodes[CollectionNode(data, c) + b].path[2] = slugify(sub_name)

\* the fetch engine meets the variations of the scheme under the names of the scheme
FetchUsesTheScheme ==
    (prog = "textures" /\ root = "list" /\ mode = "batch" /\ pc # "start") =>
        /\ Len(work) = Len(NamedEntries(data))
        /\ \A k \in 1..Len(work) :
              /\ work[k].coll_name = Strip(NamedEntries(data)[k].coll)
              /\ work[k].sub_name = Strip(NamedEntries(data)[k].sub)

\* the asset-spec builder names the specs after the names of the scheme
SpecsUseTheScheme ==
    (prog = "materials" /\ root = "list" /\ pc = "done") =>
        LET named == SelectSeq(NamedEntries(data), LAMBDA e : MaterialName(e) # <<>>)
        IN  /\ Len(specs) = Len(named)
            /\ \A k \in 1..Len(specs) :
                  /\ specs[k].name = MaterialName(named[k])
                  /\ specs[k].filesystem_path[1] = sanitize_folder(named[k].coll)
                  /\ specs[k].filesystem_path[2] = sanitize_folder(named[k].sub)

\* C17: the three components resolve the catalog fields through the same two-name
\* scheme (collection-name else collection, subcollection-name else name,
\* variations else variation), so each entry has the same raw name in the
\* materializer, the asset-spec builder and the fetch engine.
C17_SameNamesInEveryComponent ==
    FoldersUseTheScheme /\ FetchUsesTheScheme /\ SpecsUseTheScheme

---------------------------------------------------------------------------
(* slugify applied twice *)

MaxLen == 3

\* the characters of the strings given to slugify: letters of both cases, a digit,
\* the underscore, whitespace, both path separators, a character slugify removes
SlugAlphabet == {"A", "b", "1", "_", " ", "/", "\\", "-"}

StringsUpTo(n) == UNION {[1..k -> SlugAlphabet] : k \in 0..n}

InitSlugify ==
    /\ prog = "slugify"
    /\ raw \in StringsUpTo(MaxLen)
    /\ slug = None /\ reslug = None
    /\ pc = "start"
    /\ root = "list" /\ data = <<>> /\ fs = << >>
    /\ TexturesIdle /\ FoldersIdle /\ MaterialsIdle /\ FinderIdle

\* col_slug = slugify(col_name) (create_structure, line 91)
Slugify ==
    /\ prog = "slugify" /\ pc = "start"
    /\ slug' = slugify(raw)
    /\ pc' = "once"
    /\ UNCHANGED <<finderVars, texturesVars, foldersVars, materialsVars, prog, root, data, fs, raw, reslug>>

\* slugify applied to its own result
SlugifyAgain ==
    /\ prog = "slugify" /\ pc = "once"
    /\ reslug' = slugify(slug)
    /\ pc' = "done"
    /\ UNCHANGED <<finderVars, texturesVars, foldersVars, materialsVars, prog, root, data, fs, raw, slug>>

NextSlugify == Slugify \/ SlugifyAgain

SpecSlugify == InitSlugify /\ [][NextSlugify]_vars

\* no character of s is a letter or a digit: every step of slugify leaves only "_"
ReducesToEmpty(s) == \A k \in 1..Len(s) : s[k] \notin UpperSet \cup LowerSet \cup Digits

\* C18: slugify is idempotent: slugify(slugify(s)) = slugify(s) for every input s,
\* and an input that reduces to the empty string gives "unnamed" both times.
C18_SlugifyIdempotent ==
    (prog = "slugify" /\ pc = "done") =>
        /\ reslug = slug
        /\ ReducesToEmpty(raw) => slug = Unnamed
        /\ \A k \in 1..Len(slug) : slug[k] \in LowerSet \cup Digits \cup {"_"}

\* a string of separators only, slugified twice
C18_Witness ==
    /\ prog = "slugify" /\ pc = "done"
    /\ raw = <<"/", "_", " ">>
    /\ slug = Unnamed /\ reslug = Unnamed

\* a string that changes: case, separators and a removed character
C18_WitnessChanged ==
    /\ prog = "slugify" /\ pc = "done"
    /\ raw = <<"A", "/", "b">>
    /\ slug = <<"a", "_", "b">> /\ reslug = slug

---------------------------------------------------------------------------
(* The summary of process_all *)

\* the error entry m is about the entry e of the catalog
About(m, e) ==
    IF UsablePattern(e.var)
    THEN LET pat == Strip(e.var.d["variation-pattern"])
         IN  Len(m) > Len(pat) /\ SubSeq(m, 1, Len(pat) + 1) = pat \o <<": ">>
    ELSE m = << NoPatternPrefix >> \o Strip(e.coll) \o <<"/">> \o Strip(e.sub)

RECURSIVE InCatalogOrder(_, _)
\* the entries of errs are about entries of the catalog met in this order, one each
InCatalogOrder(errs, entries) ==
    IF errs = <<>> THEN TRUE
    ELSE IF entries = <<>> THEN FALSE
    ELSE IF About(Head(errs), Head(entries))
         THEN InCatalogOrder(Tail(errs), Tail(entries))
         ELSE InCatalogOrder(errs, Tail(entries))

ProcessAllReturned == prog = "textures" /\ mode = "batch" /\ pc = "done"

\* C19: when process_all returns, every variation under a named collection and a
\* named subcollection was counted in exactly one of downloaded, skipped and
\* failed, the error list has one entry per failed count, and its entries are in
\* catalog order.
C19_EveryVariationCountedOnce ==
    /\ ProcessAllReturned =>
          /\ downloaded + skipped + failed = Len(NamedEntries(data))
          /\ Len(errors) = failed
          /\ InCatalogOrder(errors, NamedEntries(data))
    /\ (prog = "textures" /\ mode = "batch" /\ pc = "loop") =>
          /\ downloaded + skipped + failed = i - 1
          /\ Len(errors) = failed

\* process_all returned after a variation without a pattern and a fetch that
\* exhausted its retries, recorded in that order
C19_Witness ==
    /\ ProcessAllReturned
    /\ failed = 2 /\ Len(errors) = 2
    /\ errors[1][1] = NoPatternPrefix /\ errors[2][1] # NoPatternPrefix
    /\ downloaded + skipped + failed = Len(NamedEntries(data))

\* process_all returned with one variation downloaded, one skipped and none failed
C19_WitnessMixed ==
    ProcessAllReturned /\ downloaded = 1 /\ skipped = 1 /\ failed = 0

=============================================================================
